---- MODULE Spec2Model ----
(***************************************************************************)
(* Receptionist of the semaphore restaurant (semSharedMemReceptionist.c).  *)
(* The receptionist is modelled statement by statement (one action per     *)
(* semaphore operation or shared-memory access); the group processes are   *)
(* the external collaborators that produce its requests.                   *)
(***************************************************************************)
EXTENDS Integers, FiniteSets, Sequences, TLC

\* number of group slots of the shared region (probConst.h), kept small
MAXGROUPS == 3
\* the two tables the decision logic is written for (ids 0 and 1)
Tables == {0, 1}

\* constants for groupRecord
TOARRIVE == 0
WAIT == 1
ATTABLE == 2
DONE == 3

Groups == 0 .. (MAXGROUPS - 1)
\* the receptionist as a process of the mutex, next to the group ids
R == MAXGROUPS

VARIABLES
    nGroups,                      \* sh->fSt.nGroups
    mutex,                        \* semaphore sh->mutex
    receptionistReq,              \* semaphore sh->receptionistReq
    receptionistRequestPossible,  \* semaphore sh->receptionistRequestPossible
    waitForTable,                 \* semaphores sh->waitForTable[g]
    tableDone,                    \* semaphores sh->tableDone[t]
    assignedTable,                \* sh->fSt.assignedTable[g]
    groupsWaiting,                \* sh->fSt.groupsWaiting
    receptionistStat,             \* sh->fSt.st.receptionistStat
    receptionistRequest,          \* sh->fSt.receptionistRequest (pending slot)
    groupRecord,                  \* receptionist's private ledger
    pc,                           \* receptionist's position in the code
    nReq,                         \* main: nReq
    req,                          \* main: req (value returned by waitForGroup)
    n,                            \* argument of the running handler
    tableId,                      \* local tableId of the running handler
    groupId,                      \* receivePayment: local groupId
    gpc,                          \* each group's position
    gkind,                        \* the request kind a group is issuing
    gtable,                       \* the table id a group read when woken
    holders,                      \* history: processes inside the mutex
    grants,                       \* history: ups of waitForTable[g]
    doneUps,                      \* history: ups of tableDone[t]
    written,                      \* history: requests written into the slot
    delivered,                    \* history: requests copied out of the slot
    undelivered,                  \* history: slot holds an unread request
    overwritten,                  \* history: an unread request was overwritten
    served,                       \* history: handler calls made by main
    pre                           \* history: snapshot at the handler call

shared == <<nGroups, mutex, receptionistReq, receptionistRequestPossible,
            waitForTable, tableDone, assignedTable, groupsWaiting,
            receptionistStat, receptionistRequest>>
rlocal == <<groupRecord, pc, nReq, req, n, tableId, groupId>>
glocal == <<gpc, gkind, gtable>>
hist == <<holders, grants, doneUps, written, delivered, undelivered,
          overwritten, served, pre>>
vars == <<shared, rlocal, glocal, hist>>
rlocal_but_pc == <<groupRecord, nReq, req, n, tableId, groupId>>
shared_but_gw == <<nGroups, mutex, receptionistReq,
                   receptionistRequestPossible, waitForTable, tableDone,
                   assignedTable, receptionistStat, receptionistRequest>>

NoReq == [reqType |-> "NONE", reqGroup |-> 0]
Kinds == {"TABLEREQ", "BILLREQ"}

\* the shared region and the semaphore set as the receptionist finds them:
\* every entry of the assignment record unassigned, nobody waiting, the mutex
\* and the slot-free signal available, every other semaphore at 0
InitShared ==
    /\ nGroups \in 1 .. MAXGROUPS
    /\ mutex = 1
    /\ receptionistReq = 0
    /\ receptionistRequestPossible = 1
    /\ waitForTable = [g \in Groups |-> 0]
    /\ tableDone = [t \in Tables |-> 0]
    /\ assignedTable = [g \in Groups |-> -1]
    /\ groupsWaiting = 0
    /\ receptionistStat = "INIT"
    /\ receptionistRequest = NoReq

\* main: groupRecord[g] = TOARRIVE; int nReq=0; the other locals are not
\* read before they are written
InitReceptionist ==
    /\ groupRecord = [g \in Groups |-> TOARRIVE]
    /\ pc = "main_loop"
    /\ nReq = 0
    /\ req = NoReq
    /\ n = 0
    /\ tableId = -1
    /\ groupId = -1

InitGroups ==
    /\ gpc = [g \in Groups |-> "arrive"]
    /\ gkind = [g \in Groups |-> "TABLEREQ"]
    /\ gtable = [g \in Groups |-> -1]

InitHistory ==
    /\ holders = {}
    /\ grants = [g \in Groups |-> 0]
    /\ doneUps = [t \in Tables |-> 0]
    /\ written = [g \in Groups |-> [k \in Kinds |-> 0]]
    /\ delivered = [g \in Groups |-> [k \in Kinds |-> 0]]
    /\ undelivered = FALSE
    /\ overwritten = FALSE
    /\ served = 0
    /\ pre = [kind |-> "NONE", gw |-> 0, at |-> [g \in Groups |-> -1],
              gr |-> [g \in Groups |-> TOARRIVE],
              grants |-> [g \in Groups |-> 0],
              doneUps |-> [t \in Tables |-> 0]]

Init ==
    /\ InitShared
    /\ InitReceptionist
    /\ InitGroups
    /\ InitHistory

----------------------------------------------------------------------------
(* main *)

\* the loop bound without the factor 2
main_loop_oncePerGroup ==
    /\ pc = "main_loop"
    /\ pc' = IF nReq < nGroups THEN "wfg_down1" ELSE "done"
    /\ UNCHANGED <<shared, groupRecord, nReq, req, n, tableId, groupId,
                   glocal, hist>>

\* while( nReq < sh->fSt.nGroups*2 )
main_loop ==
    /\ pc = "main_loop"
    /\ pc' = IF nReq < nGroups * 2 THEN "wfg_down1" ELSE "done"
    /\ UNCHANGED <<shared, groupRecord, nReq, req, n, tableId, groupId,
                   glocal, hist>>

\* switch(req.reqType): call of the handler with req.reqGroup
main_switch ==
    /\ pc = "main_switch"
    /\ pc' = CASE req.reqType = "TABLEREQ" -> "ptw_down"
               [] req.reqType = "BILLREQ" -> "rp_down"
               [] OTHER -> "main_inc"
    /\ n' = IF req.reqType \in Kinds THEN req.reqGroup ELSE n
    /\ served' = IF req.reqType \in Kinds THEN served + 1 ELSE served
    /\ pre' = [kind |-> req.reqType, gw |-> groupsWaiting,
               at |-> assignedTable, gr |-> groupRecord,
               grants |-> grants, doneUps |-> doneUps]
    /\ UNCHANGED <<shared, groupRecord, nReq, req, tableId, groupId, glocal,
                   holders, grants, doneUps, written, delivered, undelivered,
                   overwritten>>

\* nReq++
main_inc ==
    /\ pc = "main_inc"
    /\ nReq' = nReq + 1
    /\ pc' = "main_loop"
    /\ UNCHANGED <<shared, groupRecord, req, n, tableId, groupId, glocal,
                   hist>>

----------------------------------------------------------------------------
(* waitForGroup *)

\* semDown (semgid, sh->mutex)
wfg_down1 ==
    /\ pc = "wfg_down1"
    /\ mutex > 0
    /\ mutex' = mutex - 1
    /\ holders' = holders \cup {R}
    /\ pc' = "wfg_stat"
    /\ UNCHANGED <<nGroups, receptionistReq, receptionistRequestPossible,
                   waitForTable, tableDone, assignedTable, groupsWaiting,
                   receptionistStat, receptionistRequest, groupRecord, nReq,
                   req, n, tableId, groupId, glocal, grants, doneUps, written,
                   delivered, undelivered, overwritten, served, pre>>

\* sh->fSt.st.receptionistStat = WAIT_FOR_REQUEST; saveState
wfg_stat ==
    /\ pc = "wfg_stat"
    /\ receptionistStat' = "WAIT_FOR_REQUEST"
    /\ pc' = "wfg_up1"
    /\ UNCHANGED <<nGroups, mutex, receptionistReq,
                   receptionistRequestPossible, waitForTable, tableDone,
                   assignedTable, groupsWaiting, receptionistRequest,
                   groupRecord, nReq, req, n, tableId, groupId, glocal, hist>>

\* waitForGroup that keeps the mutex while it waits for a request
wfg_up1_noRelease ==
    /\ pc = "wfg_up1"
    /\ pc' = "wfg_downReq"
    /\ UNCHANGED <<shared, rlocal_but_pc, glocal, hist>>

\* semUp (semgid, sh->mutex)
wfg_up1 ==
    /\ pc = "wfg_up1"
    /\ mutex' = mutex + 1
    /\ holders' = holders \ {R}
    /\ pc' = "wfg_downReq"
    /\ UNCHANGED <<nGroups, receptionistReq, receptionistRequestPossible,
                   waitForTable, tableDone, assignedTable, groupsWaiting,
                   receptionistStat, receptionistRequest, groupRecord, nReq,
                   req, n, tableId, groupId, glocal, grants, doneUps, written,
                   delivered, undelivered, overwritten, served, pre>>

\* waitForGroup that does not wait for the request-available signal
wfg_downReq_noWait ==
    /\ pc = "wfg_downReq"
    /\ pc' = "wfg_down2"
    /\ UNCHANGED <<shared, rlocal_but_pc, glocal, hist>>

\* semDown (semgid, sh->receptionistReq)
wfg_downReq ==
    /\ pc = "wfg_downReq"
    /\ receptionistReq > 0
    /\ receptionistReq' = receptionistReq - 1
    /\ pc' = "wfg_down2"
    /\ UNCHANGED <<nGroups, mutex, receptionistRequestPossible, waitForTable,
                   tableDone, assignedTable, groupsWaiting, receptionistStat,
                   receptionistRequest, groupRecord, nReq, req, n, tableId,
                   groupId, glocal, hist>>

\* semDown (semgid, sh->mutex)
wfg_down2 ==
    /\ pc = "wfg_down2"
    /\ mutex > 0
    /\ mutex' = mutex - 1
    /\ holders' = holders \cup {R}
    /\ pc' = "wfg_read"
    /\ UNCHANGED <<nGroups, receptionistReq, receptionistRequestPossible,
                   waitForTable, tableDone, assignedTable, groupsWaiting,
                   receptionistStat, receptionistRequest, groupRecord, nReq,
                   req, n, tableId, groupId, glocal, grants, doneUps, written,
                   delivered, undelivered, overwritten, served, pre>>

\* req = sh->fSt.receptionistRequest
wfg_read ==
    /\ pc = "wfg_read"
    /\ req' = receptionistRequest
    /\ delivered' =
         IF receptionistRequest.reqType \in Kinds
         THEN [delivered EXCEPT ![receptionistRequest.reqGroup]
                                 [receptionistRequest.reqType] = @ + 1]
         ELSE delivered
    /\ undelivered' = FALSE
    /\ pc' = "wfg_up2"
    /\ UNCHANGED <<shared, groupRecord, nReq, n, tableId, groupId, glocal,
                   holders, grants, doneUps, written, overwritten, served,
                   pre>>

\* semUp (semgid, sh->mutex)
wfg_up2 ==
    /\ pc = "wfg_up2"
    /\ mutex' = mutex + 1
    /\ holders' = holders \ {R}
    /\ pc' = "wfg_upPossible"
    /\ UNCHANGED <<nGroups, receptionistReq, receptionistRequestPossible,
                   waitForTable, tableDone, assignedTable, groupsWaiting,
                   receptionistStat, receptionistRequest, groupRecord, nReq,
                   req, n, tableId, groupId, glocal, grants, doneUps, written,
                   delivered, undelivered, overwritten, served, pre>>

\* semUp (semgid, sh->receptionistRequestPossible); return req
wfg_upPossible ==
    /\ pc = "wfg_upPossible"
    /\ receptionistRequestPossible' = receptionistRequestPossible + 1
    /\ pc' = "main_switch"
    /\ UNCHANGED <<nGroups, mutex, receptionistReq, waitForTable, tableDone,
                   assignedTable, groupsWaiting, receptionistStat,
                   receptionistRequest, groupRecord, nReq, req, n, tableId,
                   groupId, glocal, hist>>

waitForGroup ==
    \/ wfg_down1
    \/ wfg_stat
    \/ wfg_up1
    \/ wfg_downReq
    \/ wfg_down2
    \/ wfg_read
    \/ wfg_up2
    \/ wfg_upPossible

----------------------------------------------------------------------------
(* decideTableOrWait, decideNextGroup *)

\* the for loop of decideTableOrWait from index i on, with the values the
\* locals tableId and num_tables have there
RECURSIVE ScanTables(_, _, _, _)
ScanTables(at, i, tId, num_tables) ==
    IF i >= MAXGROUPS THEN tId
    ELSE IF at[i] = 1
         THEN IF num_tables = 0 THEN ScanTables(at, i + 1, 0, num_tables + 1)
              ELSE -1
    ELSE IF at[i] = 0
         THEN IF num_tables = 0 THEN ScanTables(at, i + 1, 1, num_tables + 1)
              ELSE -1
    ELSE ScanTables(at, i + 1, tId, num_tables)

\* decideTableOrWait without the wait decision: the other table is returned
\* as soon as one bound table is seen
decideTableOrWait_noWait(at) ==
    IF \E i \in Groups : at[i] = 0 THEN 1 ELSE 0

\* decideTableOrWait with its local tableId starting at -1
decideTableOrWait_startMinus1(at) == ScanTables(at, 0, -1, 0)

\* the value decideTableOrWait returns: int tableId = 0; int num_tables = 0
decideTableOrWait(at) == ScanTables(at, 0, 0, 0)

\* the ledger scanned from the highest group id down
FirstWaiting_descending(gr, g) ==
    IF \E h \in Groups : h >= g /\ gr[h] = WAIT
    THEN CHOOSE h \in Groups :
            /\ h >= g
            /\ gr[h] = WAIT
            /\ \A k \in Groups : (k >= g /\ gr[k] = WAIT) => k <= h
    ELSE -1

\* the first group of the ledger in WAIT, by ascending id; -1 if there is none
RECURSIVE FirstWaiting(_, _)
FirstWaiting(gr, g) ==
    IF g >= MAXGROUPS THEN -1
    ELSE IF gr[g] = WAIT THEN g
    ELSE FirstWaiting(gr, g + 1)

\* the value decideNextGroup returns
decideNextGroup(gw, gr) ==
    IF gw = 0 THEN -1 ELSE FirstWaiting(gr, 0)

----------------------------------------------------------------------------
(* provideTableOrWaitingRoom (n) *)

\* semDown (semgid, sh->mutex)
ptw_down ==
    /\ pc = "ptw_down"
    /\ mutex > 0
    /\ mutex' = mutex - 1
    /\ holders' = holders \cup {R}
    /\ pc' = "ptw_stat"
    /\ UNCHANGED <<nGroups, receptionistReq, receptionistRequestPossible,
                   waitForTable, tableDone, assignedTable, groupsWaiting,
                   receptionistStat, receptionistRequest, groupRecord, nReq,
                   req, n, tableId, groupId, glocal, grants, doneUps, written,
                   delivered, undelivered, overwritten, served, pre>>

\* sh->fSt.st.receptionistStat = ASSIGNTABLE; saveState
ptw_stat ==
    /\ pc = "ptw_stat"
    /\ receptionistStat' = "ASSIGNTABLE"
    /\ pc' = "ptw_decide"
    /\ UNCHANGED <<nGroups, mutex, receptionistReq,
                   receptionistRequestPossible, waitForTable, tableDone,
                   assignedTable, groupsWaiting, receptionistRequest,
                   groupRecord, nReq, req, n, tableId, groupId, glocal, hist>>

\* provideTableOrWaitingRoom without the test of tableId: the group is
\* bound and signalled on the wait branch too
ptw_decide_alwaysGrant ==
    /\ pc = "ptw_decide"
    /\ tableId' = decideTableOrWait(assignedTable)
    /\ IF tableId' # -1
       THEN /\ groupRecord' = [groupRecord EXCEPT ![n] = ATTABLE]
            /\ groupsWaiting' = groupsWaiting
       ELSE /\ groupRecord' = [groupRecord EXCEPT ![n] = WAIT]
            /\ groupsWaiting' = groupsWaiting + 1
    /\ pc' = "ptw_assign"
    /\ UNCHANGED <<nGroups, mutex, receptionistReq,
                   receptionistRequestPossible, waitForTable, tableDone,
                   assignedTable, receptionistStat, receptionistRequest, nReq,
                   req, n, groupId, glocal, hist>>

\* int tableId = decideTableOrWait(n); if (tableId != -1)
ptw_decide ==
    /\ pc = "ptw_decide"
    /\ tableId' = decideTableOrWait(assignedTable)
    /\ IF tableId' # -1
       THEN /\ groupRecord' = [groupRecord EXCEPT ![n] = ATTABLE]
            /\ groupsWaiting' = groupsWaiting
            /\ pc' = "ptw_assign"
       ELSE /\ groupRecord' = [groupRecord EXCEPT ![n] = WAIT]
            /\ groupsWaiting' = groupsWaiting + 1
            /\ pc' = "ptw_up"
    /\ UNCHANGED <<nGroups, mutex, receptionistReq,
                   receptionistRequestPossible, waitForTable, tableDone,
                   assignedTable, receptionistStat, receptionistRequest, nReq,
                   req, n, groupId, glocal, hist>>

\* sh->fSt.assignedTable[n] = tableId
ptw_assign ==
    /\ pc = "ptw_assign"
    /\ assignedTable' = [assignedTable EXCEPT ![n] = tableId]
    /\ pc' = "ptw_grant"
    /\ UNCHANGED <<nGroups, mutex, receptionistReq,
                   receptionistRequestPossible, waitForTable, tableDone,
                   groupsWaiting, receptionistStat, receptionistRequest,
                   rlocal_but_pc, glocal, hist>>

\* semUp (semgid, sh->waitForTable[n])
ptw_grant ==
    /\ pc = "ptw_grant"
    /\ waitForTable' = [waitForTable EXCEPT ![n] = @ + 1]
    /\ grants' = [grants EXCEPT ![n] = @ + 1]
    /\ pc' = "ptw_up"
    /\ UNCHANGED <<nGroups, mutex, receptionistReq,
                   receptionistRequestPossible, tableDone, assignedTable,
                   groupsWaiting, receptionistStat, receptionistRequest,
                   rlocal_but_pc, glocal, holders, doneUps, written,
                   delivered, undelivered, overwritten, served, pre>>

\* semUp (semgid, sh->mutex); return
ptw_up ==
    /\ pc = "ptw_up"
    /\ mutex' = mutex + 1
    /\ holders' = holders \ {R}
    /\ pc' = "main_inc"
    /\ UNCHANGED <<nGroups, receptionistReq, receptionistRequestPossible,
                   waitForTable, tableDone, assignedTable, groupsWaiting,
                   receptionistStat, receptionistRequest, rlocal_but_pc,
                   glocal, grants, doneUps, written, delivered, undelivered,
                   overwritten, served, pre>>

provideTableOrWaitingRoom ==
    \/ ptw_down
    \/ ptw_stat
    \/ ptw_decide
    \/ ptw_assign
    \/ ptw_grant
    \/ ptw_up

----------------------------------------------------------------------------
(* receivePayment (n) *)

\* semDown (semgid, sh->mutex)
rp_down ==
    /\ pc = "rp_down"
    /\ mutex > 0
    /\ mutex' = mutex - 1
    /\ holders' = holders \cup {R}
    /\ pc' = "rp_stat"
    /\ UNCHANGED <<nGroups, receptionistReq, receptionistRequestPossible,
                   waitForTable, tableDone, assignedTable, groupsWaiting,
                   receptionistStat, receptionistRequest, rlocal_but_pc,
                   glocal, grants, doneUps, written, delivered, undelivered,
                   overwritten, served, pre>>

\* sh->fSt.st.receptionistStat = RECVPAY; saveState
rp_stat ==
    /\ pc = "rp_stat"
    /\ receptionistStat' = "RECVPAY"
    /\ pc' = "rp_readTable"
    /\ UNCHANGED <<nGroups, mutex, receptionistReq,
                   receptionistRequestPossible, waitForTable, tableDone,
                   assignedTable, groupsWaiting, receptionistRequest,
                   rlocal_but_pc, glocal, hist>>

\* int tableId = sh->fSt.assignedTable[n]
rp_readTable ==
    /\ pc = "rp_readTable"
    /\ tableId' = assignedTable[n]
    /\ pc' = "rp_decide"
    /\ UNCHANGED <<shared, groupRecord, nReq, req, n, groupId, glocal, hist>>

\* decideNextGroup without sh->fSt.groupsWaiting--
rp_decide_noDecrement ==
    /\ pc = "rp_decide"
    /\ groupId' = decideNextGroup(groupsWaiting, groupRecord)
    /\ IF groupId' # -1
       THEN /\ groupRecord' = [groupRecord EXCEPT ![groupId'] = ATTABLE]
            /\ pc' = "rp_rebind"
       ELSE /\ groupRecord' = groupRecord
            /\ pc' = "rp_clear"
    /\ UNCHANGED <<shared, nReq, req, n, tableId, glocal, hist>>

\* decideNextGroup that leaves the selected group's entry in WAIT
rp_decide_noFlip ==
    /\ pc = "rp_decide"
    /\ groupId' = decideNextGroup(groupsWaiting, groupRecord)
    /\ IF groupId' # -1
       THEN /\ groupsWaiting' = groupsWaiting - 1
            /\ pc' = "rp_rebind"
       ELSE /\ groupsWaiting' = groupsWaiting
            /\ pc' = "rp_clear"
    /\ UNCHANGED <<shared_but_gw, groupRecord, nReq, req, n, tableId, glocal,
                   hist>>

\* receivePayment that never looks for a waiting group
rp_decide_noHandoff ==
    /\ pc = "rp_decide"
    /\ groupId' = -1
    /\ pc' = "rp_clear"
    /\ UNCHANGED <<shared, groupRecord, nReq, req, n, tableId, glocal, hist>>

\* int groupId = decideNextGroup(); if (groupId != -1)
rp_decide ==
    /\ pc = "rp_decide"
    /\ groupId' = decideNextGroup(groupsWaiting, groupRecord)
    /\ IF groupId' # -1
       THEN /\ groupRecord' = [groupRecord EXCEPT ![groupId'] = ATTABLE]
            /\ groupsWaiting' = groupsWaiting - 1
            /\ pc' = "rp_rebind"
       ELSE /\ groupRecord' = groupRecord
            /\ groupsWaiting' = groupsWaiting
            /\ pc' = "rp_clear"
    /\ UNCHANGED <<nGroups, mutex, receptionistReq,
                   receptionistRequestPossible, waitForTable, tableDone,
                   assignedTable, receptionistStat, receptionistRequest, nReq,
                   req, n, tableId, glocal, hist>>

\* the handoff written under the payer's id instead of the selected group's
rp_rebind_wrongIndex ==
    /\ pc = "rp_rebind"
    /\ assignedTable' = [assignedTable EXCEPT ![n] = tableId]
    /\ pc' = "rp_done"
    /\ UNCHANGED <<nGroups, mutex, receptionistReq,
                   receptionistRequestPossible, waitForTable, tableDone,
                   groupsWaiting, receptionistStat, receptionistRequest,
                   rlocal_but_pc, glocal, hist>>

\* sh->fSt.assignedTable[groupId] = tableId
rp_rebind ==
    /\ pc = "rp_rebind"
    /\ assignedTable' = [assignedTable EXCEPT ![groupId] = tableId]
    /\ pc' = "rp_done"
    /\ UNCHANGED <<nGroups, mutex, receptionistReq,
                   receptionistRequestPossible, waitForTable, tableDone,
                   groupsWaiting, receptionistStat, receptionistRequest,
                   rlocal_but_pc, glocal, hist>>

\* groupRecord[n] = DONE (inside the if (groupId != -1) block)
rp_done ==
    /\ pc = "rp_done"
    /\ groupRecord' = [groupRecord EXCEPT ![n] = DONE]
    /\ pc' = "rp_grant"
    /\ UNCHANGED <<shared, nReq, req, n, tableId, groupId, glocal, hist>>

\* the handoff without its grant signal
rp_grant_noSignal ==
    /\ pc = "rp_grant"
    /\ pc' = "rp_clear"
    /\ UNCHANGED <<shared, rlocal_but_pc, glocal, hist>>

\* semUp (semgid, sh->waitForTable[groupId])
rp_grant ==
    /\ pc = "rp_grant"
    /\ waitForTable' = [waitForTable EXCEPT ![groupId] = @ + 1]
    /\ grants' = [grants EXCEPT ![groupId] = @ + 1]
    /\ pc' = "rp_clear"
    /\ UNCHANGED <<nGroups, mutex, receptionistReq,
                   receptionistRequestPossible, tableDone, assignedTable,
                   groupsWaiting, receptionistStat, receptionistRequest,
                   rlocal_but_pc, glocal, holders, doneUps, written,
                   delivered, undelivered, overwritten, served, pre>>

\* the clearing write skipped when a handoff was made
rp_clear_onlyWithoutHandoff ==
    /\ pc = "rp_clear"
    /\ assignedTable' = IF groupId = -1
                        THEN [assignedTable EXCEPT ![n] = -1]
                        ELSE assignedTable
    /\ pc' = "rp_up"
    /\ UNCHANGED <<nGroups, mutex, receptionistReq,
                   receptionistRequestPossible, waitForTable, tableDone,
                   groupsWaiting, receptionistStat, receptionistRequest,
                   rlocal_but_pc, glocal, hist>>

\* sh->fSt.assignedTable[n] = -1
rp_clear ==
    /\ pc = "rp_clear"
    /\ assignedTable' = [assignedTable EXCEPT ![n] = -1]
    /\ pc' = "rp_up"
    /\ UNCHANGED <<nGroups, mutex, receptionistReq,
                   receptionistRequestPossible, waitForTable, tableDone,
                   groupsWaiting, receptionistStat, receptionistRequest,
                   rlocal_but_pc, glocal, hist>>

\* receivePayment that sends the vacancy signal without leaving the mutex
rp_up_noRelease ==
    /\ pc = "rp_up"
    /\ pc' = "rp_tableDone"
    /\ UNCHANGED <<shared, rlocal_but_pc, glocal, hist>>

\* semUp (semgid, sh->mutex)
rp_up ==
    /\ pc = "rp_up"
    /\ mutex' = mutex + 1
    /\ holders' = holders \ {R}
    /\ pc' = "rp_tableDone"
    /\ UNCHANGED <<nGroups, receptionistReq, receptionistRequestPossible,
                   waitForTable, tableDone, assignedTable, groupsWaiting,
                   receptionistStat, receptionistRequest, rlocal_but_pc,
                   glocal, grants, doneUps, written, delivered, undelivered,
                   overwritten, served, pre>>

\* the vacancy signal always sent for table 0
rp_tableDone_table0 ==
    /\ pc = "rp_tableDone"
    /\ tableDone' = [tableDone EXCEPT ![0] = @ + 1]
    /\ doneUps' = [doneUps EXCEPT ![0] = @ + 1]
    /\ pc' = "main_inc"
    /\ UNCHANGED <<nGroups, mutex, receptionistReq,
                   receptionistRequestPossible, waitForTable, assignedTable,
                   groupsWaiting, receptionistStat, receptionistRequest,
                   rlocal_but_pc, glocal, holders, grants, written, delivered,
                   undelivered, overwritten, served, pre>>

\* semUp (semgid, sh->tableDone[tableId]); return
rp_tableDone ==
    /\ pc = "rp_tableDone"
    /\ tableId \in Tables
    /\ tableDone' = [tableDone EXCEPT ![tableId] = @ + 1]
    /\ doneUps' = [doneUps EXCEPT ![tableId] = @ + 1]
    /\ pc' = "main_inc"
    /\ UNCHANGED <<nGroups, mutex, receptionistReq,
                   receptionistRequestPossible, waitForTable, assignedTable,
                   groupsWaiting, receptionistStat, receptionistRequest,
                   rlocal_but_pc, glocal, holders, grants, written, delivered,
                   undelivered, overwritten, served, pre>>

receivePayment ==
    \/ rp_down
    \/ rp_stat
    \/ rp_readTable
    \/ rp_decide
    \/ rp_rebind
    \/ rp_done
    \/ rp_grant
    \/ rp_clear
    \/ rp_up
    \/ rp_tableDone

----------------------------------------------------------------------------
(* The group processes: each issues one table request, waits for its grant *)
(* signal, eats, issues one bill request and waits for its table's vacancy *)
(* signal.                                                                 *)

\* semDown (receptionistRequestPossible): the slot is free for this group
g_acquire(g) ==
    /\ g < nGroups
    /\ gpc[g] = "arrive"
    /\ receptionistRequestPossible > 0
    /\ receptionistRequestPossible' = receptionistRequestPossible - 1
    /\ gpc' = [gpc EXCEPT ![g] = "lock"]
    /\ UNCHANGED <<nGroups, mutex, receptionistReq, waitForTable, tableDone,
                   assignedTable, groupsWaiting, receptionistStat,
                   receptionistRequest, rlocal, gkind, gtable, hist>>

\* semDown (mutex)
g_lock(g) ==
    /\ gpc[g] = "lock"
    /\ mutex > 0
    /\ mutex' = mutex - 1
    /\ holders' = holders \cup {g}
    /\ gpc' = [gpc EXCEPT ![g] = "write"]
    /\ UNCHANGED <<nGroups, receptionistReq, receptionistRequestPossible,
                   waitForTable, tableDone, assignedTable, groupsWaiting,
                   receptionistStat, receptionistRequest, rlocal, gkind,
                   gtable, grants, doneUps, written, delivered, undelivered,
                   overwritten, served, pre>>

\* the group writes its request into the pending-request slot
g_write(g) ==
    /\ gpc[g] = "write"
    /\ receptionistRequest' = [reqType |-> gkind[g], reqGroup |-> g]
    /\ written' = [written EXCEPT ![g][gkind[g]] = @ + 1]
    /\ overwritten' = (overwritten \/ undelivered)
    /\ undelivered' = TRUE
    /\ gpc' = [gpc EXCEPT ![g] = "unlock"]
    /\ UNCHANGED <<nGroups, mutex, receptionistReq,
                   receptionistRequestPossible, waitForTable, tableDone,
                   assignedTable, groupsWaiting, receptionistStat, rlocal,
                   gkind, gtable, holders, grants, doneUps, delivered, served,
                   pre>>

\* semUp (mutex)
g_unlock(g) ==
    /\ gpc[g] = "unlock"
    /\ mutex' = mutex + 1
    /\ holders' = holders \ {g}
    /\ gpc' = [gpc EXCEPT ![g] = "signal"]
    /\ UNCHANGED <<nGroups, receptionistReq, receptionistRequestPossible,
                   waitForTable, tableDone, assignedTable, groupsWaiting,
                   receptionistStat, receptionistRequest, rlocal, gkind,
                   gtable, grants, doneUps, written, delivered, undelivered,
                   overwritten, served, pre>>

\* semUp (receptionistReq): a request is available
g_signal(g) ==
    /\ gpc[g] = "signal"
    /\ receptionistReq' = receptionistReq + 1
    /\ gpc' = [gpc EXCEPT ![g] = IF gkind[g] = "TABLEREQ" THEN "waitTable"
                                  ELSE "waitDone"]
    /\ UNCHANGED <<nGroups, mutex, receptionistRequestPossible, waitForTable,
                   tableDone, assignedTable, groupsWaiting, receptionistStat,
                   receptionistRequest, rlocal, gkind, gtable, hist>>

\* semDown (waitForTable[g]); the woken group reads its table id
g_waitTable(g) ==
    /\ gpc[g] = "waitTable"
    /\ waitForTable[g] > 0
    /\ waitForTable' = [waitForTable EXCEPT ![g] = @ - 1]
    /\ gtable' = [gtable EXCEPT ![g] = assignedTable[g]]
    /\ gpc' = [gpc EXCEPT ![g] = "eat"]
    /\ UNCHANGED <<nGroups, mutex, receptionistReq,
                   receptionistRequestPossible, tableDone, assignedTable,
                   groupsWaiting, receptionistStat, receptionistRequest,
                   rlocal, gkind, hist>>

\* the group eats and then goes for its bill
g_eat(g) ==
    /\ gpc[g] = "eat"
    /\ gkind' = [gkind EXCEPT ![g] = "BILLREQ"]
    /\ gpc' = [gpc EXCEPT ![g] = "arrive"]
    /\ UNCHANGED <<shared, rlocal, gtable, hist>>

\* semDown (tableDone[table of g])
g_waitDone(g) ==
    /\ gpc[g] = "waitDone"
    /\ gtable[g] \in Tables
    /\ tableDone[gtable[g]] > 0
    /\ tableDone' = [tableDone EXCEPT ![gtable[g]] = @ - 1]
    /\ gpc' = [gpc EXCEPT ![g] = "gone"]
    /\ UNCHANGED <<nGroups, mutex, receptionistReq,
                   receptionistRequestPossible, waitForTable, assignedTable,
                   groupsWaiting, receptionistStat, receptionistRequest,
                   rlocal, gkind, gtable, hist>>

Group(g) ==
    \/ g_acquire(g)
    \/ g_lock(g)
    \/ g_write(g)
    \/ g_unlock(g)
    \/ g_signal(g)
    \/ g_waitTable(g)
    \/ g_eat(g)
    \/ g_waitDone(g)

----------------------------------------------------------------------------
Receptionist ==
    \/ main_loop
    \/ waitForGroup
    \/ main_switch
    \/ provideTableOrWaitingRoom
    \/ receivePayment
    \/ main_inc

Next ==
    \/ Receptionist
    \/ \E g \in Groups : Group(g)

Spec == Init /\ [][Next]_vars

\* every process that can take a step eventually takes one
FairSpec ==
    /\ Spec
    /\ WF_vars(Receptionist)
    /\ \A g \in Groups : WF_vars(Group(g))

----------------------------------------------------------------------------
(* A producer that breaks the request contract *)

\* a group writes a request whose kind is neither TABLEREQ nor BILLREQ
g_writeUnknown(g) ==
    /\ gpc[g] = "write"
    /\ receptionistRequest' = [reqType |-> "OTHERREQ", reqGroup |-> g]
    /\ overwritten' = (overwritten \/ undelivered)
    /\ undelivered' = TRUE
    /\ gpc' = [gpc EXCEPT ![g] = "unlock"]
    /\ UNCHANGED <<nGroups, mutex, receptionistReq,
                   receptionistRequestPossible, waitForTable, tableDone,
                   assignedTable, groupsWaiting, receptionistStat, rlocal,
                   gkind, gtable, holders, grants, doneUps, written,
                   delivered, served, pre>>

NextProto ==
    \/ Next
    \/ \E g \in Groups : g_writeUnknown(g)

SpecProto == Init /\ [][NextProto]_vars

----------------------------------------------------------------------------
(* Failing semaphore operations *)

\* the positions at which the receptionist calls semDown or semUp
SemLabels ==
    {"wfg_down1", "wfg_up1", "wfg_downReq", "wfg_down2", "wfg_up2",
     "wfg_upPossible", "ptw_down", "ptw_grant", "ptw_up", "rp_down",
     "rp_grant", "rp_up", "rp_tableDone"}

\* a failing operation reported and ignored at the wait for a request
sem_fail_noExit ==
    /\ pc \in SemLabels
    /\ pc' = IF pc = "wfg_downReq" THEN "wfg_down2" ELSE "exit_failure"
    /\ UNCHANGED <<shared, rlocal_but_pc, glocal, hist>>

\* semDown or semUp returns -1: perror (...); exit (EXIT_FAILURE)
sem_fail ==
    /\ pc \in SemLabels
    /\ pc' = "exit_failure"
    /\ UNCHANGED <<shared, rlocal_but_pc, glocal, hist>>

NextFail ==
    \/ Next
    \/ sem_fail

SpecFail == Init /\ [][NextFail]_vars

----------------------------------------------------------------------------
(* The allocation policy on its own: decideTableOrWait and decideNextGroup  *)
(* applied, inside a critical section, to every ledger and assignment       *)
(* record in which no table is bound to two groups, a bound group is        *)
(* ATTABLE and groupsWaiting counts the WAIT entries.                       *)

InitPolicy ==
    /\ nGroups = MAXGROUPS
    /\ mutex = 0
    /\ receptionistReq = 0
    /\ receptionistRequestPossible = 0
    /\ waitForTable = [g \in Groups |-> 0]
    /\ tableDone = [t \in Tables |-> 0]
    /\ assignedTable \in [Groups -> {-1, 0, 1}]
    /\ \A g1, g2 \in Groups :
          (g1 # g2 /\ assignedTable[g1] # -1) =>
              assignedTable[g1] # assignedTable[g2]
    /\ groupRecord \in [Groups -> {TOARRIVE, WAIT, ATTABLE, DONE}]
    /\ \A g \in Groups : assignedTable[g] # -1 => groupRecord[g] = ATTABLE
    /\ groupsWaiting = Cardinality({g \in Groups : groupRecord[g] = WAIT})
    /\ receptionistStat = "ASSIGNTABLE"
    /\ receptionistRequest = NoReq
    /\ pc = "call"
    /\ nReq = 0
    /\ req = NoReq
    /\ n = 0
    /\ tableId = -1
    /\ groupId = -1
    /\ InitGroups
    /\ holders = {R}
    /\ grants = [g \in Groups |-> 0]
    /\ doneUps = [t \in Tables |-> 0]
    /\ written = [g \in Groups |-> [k \in Kinds |-> 0]]
    /\ delivered = [g \in Groups |-> [k \in Kinds |-> 0]]
    /\ undelivered = FALSE
    /\ overwritten = FALSE
    /\ served = 0
    /\ pre = [kind |-> "NONE", gw |-> groupsWaiting, at |-> assignedTable,
              gr |-> groupRecord, grants |-> grants, doneUps |-> doneUps]

\* a decision can be asked for: no granted table is still to be bound
PolicyReady ==
    \/ pc \in {"call", "dng_ret", "dng_ret2"}
    \/ (pc = "dtw_ret" /\ tableId = -1)

\* decideTableOrWait (g), for a group that has not asked yet
call_decideTableOrWait(g) ==
    /\ PolicyReady
    /\ groupRecord[g] = TOARRIVE
    /\ n' = g
    /\ tableId' = decideTableOrWait(assignedTable)
    /\ IF tableId' # -1
       THEN /\ groupRecord' = [groupRecord EXCEPT ![g] = ATTABLE]
            /\ groupsWaiting' = groupsWaiting
       ELSE /\ groupRecord' = [groupRecord EXCEPT ![g] = WAIT]
            /\ groupsWaiting' = groupsWaiting + 1
    /\ pc' = "dtw_ret"
    /\ pre' = [kind |-> "TABLEREQ", gw |-> groupsWaiting,
               at |-> assignedTable, gr |-> groupRecord,
               grants |-> grants, doneUps |-> doneUps]
    /\ UNCHANGED <<nGroups, mutex, receptionistReq,
                   receptionistRequestPossible, waitForTable, tableDone,
                   assignedTable, receptionistStat, receptionistRequest, nReq,
                   req, groupId, glocal, holders, grants, doneUps, written,
                   delivered, undelivered, overwritten, served>>

\* if (tableId != -1) sh->fSt.assignedTable[n] = tableId
bind_table ==
    /\ pc = "dtw_ret"
    /\ tableId # -1
    /\ assignedTable' = [assignedTable EXCEPT ![n] = tableId]
    /\ pc' = "call"
    /\ UNCHANGED <<nGroups, mutex, receptionistReq,
                   receptionistRequestPossible, waitForTable, tableDone,
                   groupsWaiting, receptionistStat, receptionistRequest,
                   rlocal_but_pc, glocal, hist>>

\* decideNextGroup with groupsWaiting decremented before it is tested
call_decideNextGroup_decrementFirst ==
    /\ PolicyReady
    /\ groupId' = decideNextGroup(groupsWaiting, groupRecord)
    /\ groupRecord' = IF groupId' # -1
                      THEN [groupRecord EXCEPT ![groupId'] = ATTABLE]
                      ELSE groupRecord
    /\ groupsWaiting' = groupsWaiting - 1
    /\ pc' = IF pc \in {"dng_ret", "dng_ret2"} /\ groupId = -1
             THEN "dng_ret2" ELSE "dng_ret"
    /\ pre' = [kind |-> "NEXTGROUP", gw |-> groupsWaiting,
               at |-> assignedTable, gr |-> groupRecord,
               grants |-> grants, doneUps |-> doneUps]
    /\ UNCHANGED <<shared_but_gw, nReq, req, n, tableId, glocal, holders,
                   grants, doneUps, written, delivered, undelivered,
                   overwritten, served>>

\* decideNextGroup (); the return position tells a call made right after a
\* call that returned -1 (dng_ret2) from any other call (dng_ret)
call_decideNextGroup ==
    /\ PolicyReady
    /\ groupId' = decideNextGroup(groupsWaiting, groupRecord)
    /\ IF groupId' # -1
       THEN /\ groupRecord' = [groupRecord EXCEPT ![groupId'] = ATTABLE]
            /\ groupsWaiting' = groupsWaiting - 1
       ELSE /\ groupRecord' = groupRecord
            /\ groupsWaiting' = groupsWaiting
    /\ pc' = IF pc \in {"dng_ret", "dng_ret2"} /\ groupId = -1
             THEN "dng_ret2" ELSE "dng_ret"
    /\ pre' = [kind |-> "NEXTGROUP", gw |-> groupsWaiting,
               at |-> assignedTable, gr |-> groupRecord,
               grants |-> grants, doneUps |-> doneUps]
    /\ UNCHANGED <<shared_but_gw, nReq, req, n, tableId, glocal, holders,
                   grants, doneUps, written, delivered, undelivered,
                   overwritten, served>>

NextPolicy ==
    \/ \E g \in Groups : call_decideTableOrWait(g)
    \/ bind_table
    \/ call_decideNextGroup

SpecPolicy == InitPolicy /\ [][NextPolicy]_vars

TypeOK ==
    /\ mutex \in {0, 1}
    /\ assignedTable \in [Groups -> {-1, 0, 1}]
    /\ groupRecord \in [Groups -> {TOARRIVE, WAIT, ATTABLE, DONE}]
    /\ groupsWaiting \in 0 .. MAXGROUPS
    /\ nReq \in 0 .. (2 * MAXGROUPS)

----------------------------------------------------------------------------
(* Properties *)

Waiting == {g \in Groups : groupRecord[g] = WAIT}
BoundTo(t) == {g \in Groups : assignedTable[g] = t}
InReceivePayment ==
    pc \in {"rp_down", "rp_stat", "rp_readTable", "rp_decide", "rp_rebind",
            "rp_done", "rp_grant", "rp_clear", "rp_up", "rp_tableDone"}

\* C1 as stated: in every reachable state, at the granularity of the single
\* writes to assignedTable, no two distinct groups are bound to the same
\* table id (a value other than -1).
C1_NoDoubleBooking ==
    \A g1, g2 \in Groups :
        (g1 # g2 /\ assignedTable[g1] # -1) =>
            assignedTable[g1] # assignedTable[g2]

\* C1 amended: two distinct groups are bound to the same table id only inside
\* receivePayment's critical section, between the handoff write
\* assignedTable[groupId] = tableId and the write assignedTable[n] = -1, and
\* then they are the payer n and the selected group groupId; in every other
\* state, and so whenever the receptionist is outside the mutex, no table id
\* is bound to two groups.
C1_NoDoubleBookingOutsideHandoff ==
    \A g1, g2 \in Groups :
        (g1 # g2 /\ assignedTable[g1] # -1
                 /\ assignedTable[g1] = assignedTable[g2]) =>
            /\ pc \in {"rp_done", "rp_grant", "rp_clear"}
            /\ R \in holders
            /\ {g1, g2} = {n, groupId}
            /\ assignedTable[g1] = tableId

\* a handoff has been completed: the selected group alone holds the table
C1_Witness ==
    /\ pc = "rp_up"
    /\ groupId # -1
    /\ pre.gw > 0
    /\ BoundTo(tableId) = {groupId}
    /\ BoundTo(1 - tableId) # {}

\* C2: whenever the receptionist does not hold the mutex, groupsWaiting is
\* the number of groups whose groupRecord entry is WAIT.
C2_GroupsWaitingMatchesLedger ==
    (R \notin holders) => groupsWaiting = Cardinality(Waiting)

\* a group is on the waitlist while the receptionist is outside the mutex
C2_Witness ==
    /\ R \notin holders
    /\ groupsWaiting > 0
    /\ Waiting # {}

\* C3: with every group issuing one table request and one bill request, under
\* fair scheduling the main loop services exactly 2 x nGroups requests and
\* then terminates; it never services more and never stops earlier.
C3_ServesTwoPerGroupThenTerminates ==
    /\ [](served <= 2 * nGroups /\ nReq <= 2 * nGroups)
    /\ [](pc = "done" => (nReq = 2 * nGroups /\ served = 2 * nGroups))
    /\ <>(pc = "done")

\* the receptionist has terminated after a run with every group slot in use
C3_Witness ==
    /\ pc = "done"
    /\ nGroups = MAXGROUPS
    /\ served = 2 * MAXGROUPS

\* C4: every request a group writes into the slot is copied out by
\* waitForGroup exactly once, and no group overwrites a request that has not
\* been read yet.
C4_ExactlyOnceDelivery ==
    /\ ~overwritten
    /\ \A g \in Groups : \A k \in Kinds :
          /\ delivered[g][k] <= written[g][k]
          /\ delivered[g][k] <= 1
    /\ (~undelivered) => delivered = written
    /\ (pc = "done") =>
          \A g \in Groups : \A k \in Kinds :
              g < nGroups => delivered[g][k] = 1

\* all requests of a full run were delivered, the last read just made
C4_Witness ==
    /\ pc = "wfg_up2"
    /\ nGroups = MAXGROUPS
    /\ \A g \in Groups : \A k \in Kinds : delivered[g][k] = 1

\* C5: the receptionist writes receptionistStat, assignedTable and
\* groupsWaiting and reads the pending-request slot only while it holds the
\* mutex; the mutex is never held by two processes; the receptionist is
\* outside the mutex when it blocks on receptionistReq and when a function
\* has returned to main.
C5_MutexDiscipline ==
    /\ [](/\ Cardinality(holders) <= 1
          /\ mutex + Cardinality(holders) = 1
          /\ (pc \in {"wfg_downReq", "wfg_upPossible", "rp_tableDone",
                      "main_switch", "main_inc", "main_loop", "done"})
                => R \notin holders)
    /\ [][(\/ receptionistStat' # receptionistStat
           \/ assignedTable' # assignedTable
           \/ groupsWaiting' # groupsWaiting
           \/ pc = "wfg_read")
          => (R \in holders /\ R \in holders')]_vars

\* the receptionist is in a critical section writing the assignment record
\* while a group is blocked on the mutex
C5_Witness ==
    /\ pc = "rp_clear"
    /\ holders = {R}
    /\ \E g \in Groups : gpc[g] = "lock"

\* C6: the grant semaphore of a group is raised at most once over the run.
C6_AtMostOneGrant ==
    \A g \in Groups : grants[g] <= 1

\* every group was granted once, one of them by a handoff in receivePayment
C6_Witness ==
    /\ \A g \in Groups : grants[g] = 1
    /\ \E g \in Groups : pre.kind = "BILLREQ" /\ groupId = g
                         /\ pre.gr[g] = WAIT

\* C7: when the receptionist raises waitForTable[g], assignedTable[g] already
\* holds a valid table id written in the same critical section (g was unbound
\* when the handler was called); an entry holding a table id changes only when
\* receivePayment(g) clears it to -1; a group woken by its grant signal reads
\* a valid table id, the one bound to it.
C7_GrantAfterBinding ==
    /\ [](\A g \in Groups :
            gpc[g] \in {"eat", "waitDone", "gone"} =>
               /\ gtable[g] \in Tables
               /\ assignedTable[g] \in {-1, gtable[g]})
    /\ [][\A g \in Groups :
            /\ (grants'[g] > grants[g]) =>
                  /\ assignedTable[g] \in Tables
                  /\ assignedTable'[g] = assignedTable[g]
                  /\ pre.at[g] = -1
                  /\ R \in holders
            /\ (assignedTable[g] \in Tables
                  /\ assignedTable'[g] # assignedTable[g]) =>
                  /\ pc = "rp_clear"
                  /\ n = g
                  /\ assignedTable'[g] = -1]_vars

\* a group woken by a handoff has read the table id bound to it
C7_Witness ==
    \E g \in Groups :
        /\ gpc[g] = "eat"
        /\ pre.gr[g] = WAIT
        /\ groupId = g
        /\ gtable[g] = assignedTable[g]
        /\ gtable[g] \in Tables

\* C8 as stated: after receivePayment(n) returns, groupRecord[n] is DONE
\* whether or not a waiting group was selected, and when the receptionist
\* terminates every group's entry is DONE.
C8_PayerMarkedDone ==
    /\ (pc = "main_inc" /\ pre.kind = "BILLREQ") => groupRecord[n] = DONE
    /\ (pc = "done") =>
          \A g \in Groups : g < nGroups => groupRecord[g] = DONE

\* C9: receivePayment(A) called with groupsWaiting > 0 selects a waiting
\* group B, binds A's table to B, raises B's grant semaphore once, clears A's
\* entry, raises the table's vacancy semaphore once and decrements
\* groupsWaiting; at its return A is DONE and B is ATTABLE; in between the
\* table is always bound to some group.
C9_HandoffOnPayment ==
    /\ (InReceivePayment /\ pre.gw > 0) => BoundTo(pre.at[n]) # {}
    /\ (pc = "main_inc" /\ pre.kind = "BILLREQ" /\ pre.gw > 0) =>
          /\ groupId \in Groups
          /\ groupId # n
          /\ pre.gr[groupId] = WAIT
          /\ pre.at[n] \in Tables
          /\ assignedTable =
                [pre.at EXCEPT ![groupId] = pre.at[n], ![n] = -1]
          /\ grants = [pre.grants EXCEPT ![groupId] = @ + 1]
          /\ doneUps = [pre.doneUps EXCEPT ![pre.at[n]] = @ + 1]
          /\ groupsWaiting = pre.gw - 1
          /\ groupRecord[n] = DONE
          /\ groupRecord[groupId] = ATTABLE

\* a payment made while a group was waiting has returned
C9_Witness ==
    /\ pc = "main_inc"
    /\ pre.kind = "BILLREQ"
    /\ pre.gw > 0
    /\ BoundTo(pre.at[n]) = {groupId}

\* C10: receivePayment(n) called with groupsWaiting = 0 raises the vacancy
\* semaphore of n's table exactly once and no other, raises no grant
\* semaphore, sets assignedTable[n] to -1 and leaves the other assignment
\* entries and groupsWaiting unchanged.
C10_PaymentWithoutWaiters ==
    (pc = "main_inc" /\ pre.kind = "BILLREQ" /\ pre.gw = 0) =>
        /\ pre.at[n] \in Tables
        /\ doneUps = [pre.doneUps EXCEPT ![pre.at[n]] = @ + 1]
        /\ grants = pre.grants
        /\ assignedTable = [pre.at EXCEPT ![n] = -1]
        /\ groupsWaiting = 0

\* a payment for table 1 made with an empty waitlist has returned
C10_Witness ==
    /\ pc = "main_inc"
    /\ pre.kind = "BILLREQ"
    /\ pre.gw = 0
    /\ pre.at[n] = 1
    /\ assignedTable[n] = -1
    /\ doneUps[1] = pre.doneUps[1] + 1

\* C11 as stated: a request whose kind is neither TABLEREQ nor BILLREQ stops
\* the receptionist: it is never counted as a serviced request (main never
\* reaches nReq++ with it) and the run does not go on to a successful exit.
C11_UnknownKindIsFatal ==
    ~(pc \in {"main_inc", "main_loop", "done"} /\ req.reqType = "OTHERREQ")

Sems == <<mutex, receptionistReq, receptionistRequestPossible, waitForTable,
          tableDone>>

\* C12: a semaphore operation of the receptionist either takes effect or
\* ends the receptionist at once (exit with failure) with no write to the
\* shared region, the ledger or any semaphore; once ended, the receptionist
\* writes nothing, raises nothing and never resumes.
C12_SemFailureIsFatal ==
    [][/\ (pc \in SemLabels /\ pc' # pc) =>
            \/ Sems' # Sems
            \/ (pc' = "exit_failure"
                  /\ UNCHANGED <<shared, rlocal_but_pc, hist>>)
       /\ (pc = "exit_failure") =>
            /\ pc' = "exit_failure"
            /\ UNCHANGED <<assignedTable, groupsWaiting, receptionistStat,
                           groupRecord, nReq, req, grants, doneUps, served,
                           delivered>>
            /\ (R \in holders') <=> (R \in holders)]_vars

\* the grant signal of a handoff failed inside the critical section and the
\* groups went on running
C12_Witness ==
    /\ pc = "exit_failure"
    /\ R \in holders
    /\ pre.kind = "BILLREQ"
    /\ groupId # -1
    /\ grants[groupId] = 0
    /\ assignedTable[groupId] = tableId
    /\ \E g \in Groups : gpc[g] = "lock"

\* every process has finished: the receptionist left its loop and every
\* group of the run consumed its vacancy signal
Finished ==
    /\ pc = "done"
    /\ \A g \in Groups : g < nGroups => gpc[g] = "gone"

\* C13: under fair scheduling every group that issued its table request has
\* its grant semaphore raised, every group that issued its bill request gets
\* its table's vacancy signal, and whenever no process can take a step every
\* process has finished.
C13_NoDeadlockNoLostWakeup ==
    /\ \A g \in Groups :
          (written[g]["TABLEREQ"] = 1) ~> (grants[g] = 1)
    /\ \A g \in Groups :
          (written[g]["BILLREQ"] = 1) ~>
              (gpc[g] = "gone" /\ doneUps[gtable[g]] > 0)
    /\ []((~ENABLED Next) => Finished)

\* a full run has finished: every grant and every vacancy signal was raised
\* and consumed
C13_Witness ==
    /\ Finished
    /\ nGroups = MAXGROUPS
    /\ \A g \in Groups : grants[g] = 1 /\ waitForTable[g] = 0
    /\ doneUps[0] + doneUps[1] = MAXGROUPS
    /\ tableDone[0] + tableDone[1] = 0

\* C14: the vacancy semaphore of the payer's table t is raised with the
\* receptionist outside the mutex and after the handoff and the clearing
\* write: at that step, and when receivePayment has returned,
\* assignedTable[n] = -1 and t is bound to the selected waiting group or, if
\* none was selected, to no group.
C14_VacancyAfterHandoff ==
    /\ [][\A t \in Tables :
            (doneUps'[t] > doneUps[t]) =>
                /\ R \notin holders
                /\ t = pre.at[n]
                /\ assignedTable[n] = -1
                /\ BoundTo(t) = (IF groupId = -1 THEN {} ELSE {groupId})
                /\ assignedTable' = assignedTable]_vars
    /\ []((pc = "main_inc" /\ pre.kind = "BILLREQ") =>
            /\ assignedTable[n] = -1
            /\ BoundTo(pre.at[n]) = (IF groupId = -1 THEN {} ELSE {groupId}))

\* the vacancy signal of a handed-off table has just been raised
C14_Witness ==
    /\ pc = "main_inc"
    /\ pre.kind = "BILLREQ"
    /\ R \notin holders
    /\ doneUps[tableId] = pre.doneUps[tableId] + 1
    /\ groupId # -1
    /\ BoundTo(tableId) = {groupId}

\* the tables bound to no group in the snapshot taken at the call
FreeAtCall == {t \in Tables : \A g \in Groups : pre.at[g] # t}

\* C15: on every snapshot in which no table is bound to two groups,
\* decideTableOrWait(n) returns a table bound to no group if there is one,
\* marking n ATTABLE and leaving groupsWaiting alone, and returns -1, marking
\* n WAIT and adding one to groupsWaiting, exactly when both tables are
\* bound; binding what it returns never gives two groups the same table.
C15_FindsFreeTable ==
    /\ (pc = "dtw_ret") =>
          /\ assignedTable = pre.at
          /\ (FreeAtCall # {}) =>
                /\ tableId \in FreeAtCall
                /\ groupRecord = [pre.gr EXCEPT ![n] = ATTABLE]
                /\ groupsWaiting = pre.gw
          /\ (FreeAtCall = {}) =>
                /\ tableId = -1
                /\ groupRecord = [pre.gr EXCEPT ![n] = WAIT]
                /\ groupsWaiting = pre.gw + 1
    /\ \A g1, g2 \in Groups :
          (g1 # g2 /\ assignedTable[g1] # -1) =>
              assignedTable[g1] # assignedTable[g2]

\* two groups asked while both tables were free, the higher id first: they
\* hold distinct tables and nobody waits
C15_Witness ==
    /\ pc = "call"
    /\ pre.kind = "TABLEREQ"
    /\ n = 0
    /\ pre.at = [g \in Groups |-> IF g = 1 THEN 0 ELSE -1]
    /\ assignedTable = [g \in Groups |-> IF g = 1 THEN 0
                                         ELSE IF g = 0 THEN 1 ELSE -1]
    /\ groupsWaiting = 0

\* C16: when provideTableOrWaitingRoom(n) returns from the wait branch, the
\* assignment record is what it was at the call, no grant or vacancy
\* semaphore was raised, and besides the receptionist status only
\* groupRecord[n] (now WAIT) and groupsWaiting (plus one) have changed.
C16_WaitBranchFrame ==
    (pc \in {"ptw_up", "main_inc"} /\ pre.kind = "TABLEREQ"
       /\ tableId = -1) =>
        /\ assignedTable = pre.at
        /\ grants = pre.grants
        /\ doneUps = pre.doneUps
        /\ groupRecord = [pre.gr EXCEPT ![n] = WAIT]
        /\ groupsWaiting = pre.gw + 1
        /\ receptionistStat = "ASSIGNTABLE"

\* a table request has returned from the wait branch
C16_Witness ==
    /\ pc = "main_inc"
    /\ pre.kind = "TABLEREQ"
    /\ tableId = -1
    /\ groupRecord[n] = WAIT
    /\ waitForTable[n] = 0

\* C17: decideNextGroup returns -1 and changes nothing when groupsWaiting is
\* 0; when groupsWaiting > 0 it returns the smallest group id whose entry is
\* WAIT, sets that entry to ATTABLE and decrements groupsWaiting by one, and
\* it always finds such a group.
C17_NextGroupIsSmallestWaiting ==
    (pc \in {"dng_ret", "dng_ret2"}) =>
        IF pre.gw = 0
        THEN /\ groupId = -1
             /\ groupRecord = pre.gr
             /\ groupsWaiting = 0
        ELSE /\ groupId \in Groups
             /\ pre.gr[groupId] = WAIT
             /\ \A g \in Groups : g < groupId => pre.gr[g] # WAIT
             /\ groupRecord = [pre.gr EXCEPT ![groupId] = ATTABLE]
             /\ groupsWaiting = pre.gw - 1

\* with groups 1 and 2 waiting and group 0 not, group 1 was selected and
\* group 2 still waits
C17_Witness ==
    /\ pc = "dng_ret"
    /\ pre.gw = 2
    /\ pre.gr[0] # WAIT
    /\ pre.gr[1] = WAIT
    /\ pre.gr[2] = WAIT
    /\ groupId = 1
    /\ groupRecord[2] = WAIT
    /\ groupsWaiting = 1

\* C18: a call of decideNextGroup that returns -1 changes neither the ledger
\* nor groupsWaiting, and a call made right after it returns -1 again and
\* changes nothing either.
C18_EmptyAnswerIsIdempotent ==
    /\ (pc \in {"dng_ret", "dng_ret2"} /\ groupId = -1) =>
          /\ groupRecord = pre.gr
          /\ groupsWaiting = pre.gw
    /\ (pc = "dng_ret2") =>
          /\ groupId = -1
          /\ groupRecord = pre.gr
          /\ groupsWaiting = pre.gw
          /\ pre.gw = 0

\* a second call right after an empty answer has returned
C18_Witness ==
    /\ pc = "dng_ret2"
    /\ groupId = -1
    /\ pre.kind = "NEXTGROUP"
    /\ \E g \in Groups : groupRecord[g] = ATTABLE

\* the moves a ledger entry may make
LedgerMoves ==
    {<<TOARRIVE, WAIT>>, <<TOARRIVE, ATTABLE>>, <<WAIT, ATTABLE>>,
     <<ATTABLE, DONE>>}

\* C19: a ledger entry only moves TOARRIVE -> WAIT, TOARRIVE -> ATTABLE,
\* WAIT -> ATTABLE or ATTABLE -> DONE, so it never moves backwards, becomes
\* ATTABLE at most once and only then DONE; when the receptionist has served
\* every request, every group of the run has been ATTABLE.
C19_LedgerLifecycle ==
    /\ [][\A g \in Groups :
            groupRecord'[g] # groupRecord[g] =>
                <<groupRecord[g], groupRecord'[g]>> \in LedgerMoves]_vars
    /\ []((pc = "done") =>
            \A g \in Groups :
                g < nGroups => groupRecord[g] \in {ATTABLE, DONE})

\* a payment has just moved the payer ATTABLE -> DONE and, before that, a
\* group that had asked and waited WAIT -> ATTABLE
C19_Witness ==
    /\ pc = "rp_grant"
    /\ pre.gr[n] = ATTABLE
    /\ groupRecord[n] = DONE
    /\ pre.gr[groupId] = WAIT
    /\ groupRecord[groupId] = ATTABLE
    /\ \E g \in Groups : groupRecord[g] = ATTABLE /\ g # groupId

\* C20: whenever the receptionist is outside the mutex, a group waits only
\* if both tables are bound to some group, and at most two groups are bound
\* to a table.
C20_NoWaitingWhileTableFree ==
    (R \notin holders) =>
        /\ (groupsWaiting > 0) => (BoundTo(0) # {} /\ BoundTo(1) # {})
        /\ Cardinality({g \in Groups : assignedTable[g] # -1}) <= 2

\* a group waits, both tables taken, the receptionist waiting for a request
C20_Witness ==
    /\ R \notin holders
    /\ pc = "wfg_downReq"
    /\ groupsWaiting = 1
    /\ BoundTo(0) # {}
    /\ BoundTo(1) # {}
    /\ \E g \in Groups : gpc[g] = "waitTable" /\ groupRecord[g] = WAIT

====
